---- MODULE Spec2Model ----
(***************************************************************************)
(* Model of gemini_cli: cli.py (main, safe_print), main.py (generate_text, *)
(* _extract_first_text) and config.py (GOOGLE_API_KEY).                    *)
(*                                                                         *)
(* A Python str is a sequence of one-character strings when its characters *)
(* matter (the text handed to safe_print) and a sequence of segments when  *)
(* only concatenation and containment matter (messages); str + str and     *)
(* f-strings are \o.                                                       *)
(***************************************************************************)
EXTENDS Integers, Sequences, FiniteSets, TLC

(* ---------------- bounds of the model ---------------- *)
\* longest text drawn for safe_print
MaxLen == 5
\* widest terminal drawn for shutil.get_terminal_size().columns
MaxWidth == 4
\* longest parts list of a response
MaxParts == 2
\* longest candidates list of a response
MaxCands == 2

(* ---------------- strings ---------------- *)
\* characters the model draws texts from; " " and "\n" are whitespace
Chars == {"a", "b", "-", " ", "\n"}

IsSpace(c) == c \in {" ", "\n", "\t"}

RECURSIVE SeqsUpTo(_, _)
SeqsUpTo(S, n) ==
    IF n = 0 THEN {<<>>}
    ELSE LET shorter == SeqsUpTo(S, n - 1)
         IN  shorter \cup {Append(s, x) : s \in {t \in shorter : Len(t) = n - 1}, x \in S}

RECURSIVE Concat(_)
Concat(ss) == IF ss = <<>> THEN <<>> ELSE Head(ss) \o Concat(Tail(ss))

\* " " * n ; a count below 1 gives the empty string
RECURSIVE Repeat(_, _)
Repeat(c, n) == IF n <= 0 THEN <<>> ELSE <<c>> \o Repeat(c, n - 1)

\* sep.join(parts)
RECURSIVE Join(_, _)
Join(sep, parts) ==
    IF parts = <<>> THEN <<>>
    ELSE IF Len(parts) = 1 THEN Head(parts)
    ELSE Head(parts) \o sep \o Join(sep, Tail(parts))

\* the maximal runs of whitespace and of non-whitespace of s, in order
RECURSIVE Runs(_, _, _)
Runs(s, cur, acc) ==
    IF s = <<>> THEN (IF cur = <<>> THEN acc ELSE Append(acc, cur))
    ELSE IF cur = <<>> \/ IsSpace(Head(s)) = IsSpace(cur[1])
         THEN Runs(Tail(s), Append(cur, Head(s)), acc)
         ELSE Runs(Tail(s), <<Head(s)>>, Append(acc, cur))

IsBlank(chunk) == \A i \in 1..Len(chunk) : IsSpace(chunk[i])

\* str.split(): the whitespace-separated words
py_split(s) == SelectSeq(Runs(s, <<>>, <<>>), LAMBDA r : ~IsBlank(r))

(* ---------------- cli.py: safe_print ---------------- *)
pad_word(word, width) ==
    IF Len(word) > width THEN word \o Repeat(" ", width - Len(word)) ELSE word

RECURSIVE pad_each(_, _)
pad_each(words, width) ==
    IF words = <<>> THEN <<>>
    ELSE <<pad_word(Head(words), width)>> \o pad_each(Tail(words), width)

pad_long_words(s, width) == Join(<<" ">>, pad_each(py_split(s), width))

\* TextWrapper._split_chunks with break_on_hyphens=False: whitespace is
\* normalised to spaces and the text is cut into words and whitespace runs
munge_whitespace(s) == [i \in 1..Len(s) |-> IF IsSpace(s[i]) THEN " " ELSE s[i]]

split_chunks(s) == Runs(munge_whitespace(s), <<>>, <<>>)

\* the inner loop of _wrap_chunks: take chunks while they fit
RECURSIVE fill_line(_, _, _, _)
fill_line(chunks, cur_line, cur_len, width) ==
    IF chunks # <<>> /\ cur_len + Len(Head(chunks)) <= width
    THEN fill_line(Tail(chunks), Append(cur_line, Head(chunks)),
                   cur_len + Len(Head(chunks)), width)
    ELSE [cur |-> cur_line, rest |-> chunks]

\* _handle_long_word with break_long_words=True: the line is filled with the
\* head of the word
handle_long_word_break(st, width) ==
    IF st.rest # <<>> /\ Len(Head(st.rest)) > width
    THEN LET room == width - Len(Concat(st.cur))
             word == Head(st.rest)
         IN  [cur  |-> Append(st.cur, SubSeq(word, 1, room)),
              rest |-> <<SubSeq(word, room + 1, Len(word))>> \o Tail(st.rest)]
    ELSE st

\* _handle_long_word with break_long_words=False: the word is taken whole,
\* and only onto an empty line
handle_long_word(st, width) ==
    IF st.rest # <<>> /\ Len(Head(st.rest)) > width /\ st.cur = <<>>
    THEN [cur |-> <<Head(st.rest)>>, rest |-> Tail(st.rest)]
    ELSE st

drop_trailing_blank(cur_line) ==
    IF cur_line # <<>> /\ IsBlank(cur_line[Len(cur_line)])
    THEN SubSeq(cur_line, 1, Len(cur_line) - 1)
    ELSE cur_line

RECURSIVE wrap_chunks(_, _, _)
wrap_chunks(chunks, lines, width) ==
    IF chunks = <<>> THEN lines
    ELSE LET c1   == IF IsBlank(Head(chunks)) /\ lines # <<>>
                     THEN Tail(chunks) ELSE chunks
             st   == handle_long_word(fill_line(c1, <<>>, 0, width), width)
             line == drop_trailing_blank(st.cur)
         IN  wrap_chunks(st.rest,
                         IF line # <<>> THEN Append(lines, Concat(line)) ELSE lines,
                         width)

wrap(s, width) == wrap_chunks(split_chunks(s), <<>>, width)

\* the lines safe_print prints, in order
safe_print(text, width) == wrap(pad_long_words(text, width), width)

(* ---------------- the response of the remote service ---------------- *)
\* A Python value or the state of an attribute, tagged by k:
\*   "missing"  the object has no such attribute (getattr gives its default)
\*   "raises"   reading the attribute raises an exception other than AttributeError
\*   "None", "str" (s), "int" (n), "list" (items), "obj" (an object with attributes)
Missing == [k |-> "missing", s |-> <<>>, n |-> 0]
Raises == [k |-> "raises", s |-> <<>>, n |-> 0]
PyNone == [k |-> "None", s |-> <<>>, n |-> 0]
PyStr(s) == [k |-> "str", s |-> s, n |-> 0]
PyInt(n) == [k |-> "int", s |-> <<>>, n |-> n]

\* the texts a part carries
Texts == {<<>>, <<"a", "-">>, <<"a", " ", "-", "a">>}
\* a wrongly-typed field holds an int, falsy (0) or truthy
Ints == {PyInt(0), PyInt(7)}

Scalars == {Missing, Raises, PyNone} \cup Ints
TextAttrs == Scalars \cup {PyStr(t) : t \in Texts}

\* a part: an object with a text attribute, or None in its place
PartObj(text) == [k |-> "obj", text |-> text]
NonePart == [k |-> "None", text |-> Missing]
Parts == {PartObj(t) : t \in TextAttrs} \cup {NonePart}
\* the parts after the first
TailParts == Parts

\* a non-empty list: any first element, then elements of tail
ListsOf(first, tail, max) ==
    {<<>>} \cup {<<f>> \o t : f \in first, t \in SeqsUpTo(tail, max - 1)}

PartsList(items) == [k |-> "list", items |-> items, n |-> 0]
NoItems(v) == [k |-> v.k, items |-> <<>>, n |-> v.n]
PartsAttrs ==
    {PartsList(l) : l \in ListsOf(Parts, TailParts, MaxParts)}
        \cup {NoItems(v) : v \in Scalars}

ContentObj(parts) == [k |-> "obj", parts |-> parts, n |-> 0]
NoParts(v) == [k |-> v.k, parts |-> NoItems(Missing), n |-> v.n]
ContentAttrs == {ContentObj(p) : p \in PartsAttrs} \cup {NoParts(v) : v \in Scalars}

CandidateObj(content) == [k |-> "obj", content |-> content]
NoneCandidate == [k |-> "None", content |-> NoParts(Missing)]
Candidates == {CandidateObj(c) : c \in ContentAttrs} \cup {NoneCandidate}
\* the candidates after the first: one with a usable text, one without
TailCandidates ==
    {CandidateObj(ContentObj(PartsList(<<PartObj(PyStr(<<"b">>))>>))), NoneCandidate}

CandidatesList(items) == [k |-> "list", items |-> items, n |-> 0]
CandidatesAttrs ==
    {CandidatesList(l) : l \in ListsOf(Candidates, TailCandidates, MaxCands)}
        \cup {NoItems(v) : v \in Scalars}

\* prompt_feedback: an object is truthy and renders as its s
PyObj(s) == [k |-> "obj", s |-> s, n |-> 0]
Feedbacks == {Missing, Raises, PyNone, PyStr(<<>>), PyObj(<<"block_reason=SAFETY">>)}

Responses == [candidates : CandidatesAttrs, prompt_feedback : Feedbacks]

\* bool(v)
Truthy(v) ==
    CASE v.k = "None" -> FALSE
      [] v.k = "str"  -> v.s # <<>>
      [] v.k = "int"  -> v.n # 0
      [] v.k = "list" -> v.items # <<>>
      [] OTHER        -> TRUE

(* ---------------- main.py: _extract_first_text ---------------- *)
\* the outcome of the try block: a returned value, Raised when a statement
\* of the block raises, FellThrough when the block ends without returning
Raised == [k |-> "raised", s |-> <<>>, n |-> 0]
FellThrough == [k |-> "fell", s |-> <<>>, n |-> 0]

\* parts[0].text, without the "or"
text_or_none(text) ==
    IF text.k = "raises" THEN Raised ELSE text

\* parts[0].text or ""
text_or_empty(text) ==
    IF text.k = "raises" THEN Raised
    ELSE IF Truthy(text) THEN text ELSE PyStr(<<>>)

\* line 84-85, given parts
extract_from_parts(parts) ==
    IF ~Truthy(parts) THEN FellThrough
    ELSE IF parts.k # "list" THEN Raised
    ELSE IF ~(Len(parts.items) > 0) THEN FellThrough
    ELSE IF parts.items[1].k # "obj" \/ parts.items[1].text.k = "missing"
         THEN FellThrough
    ELSE text_or_empty(parts.items[1].text)

\* line 81-82, given candidates[0]
extract_from_candidate(candidate) ==
    IF candidate.k # "obj" \/ candidate.content.k = "missing"
    THEN FellThrough
    ELSE IF candidate.content.k = "raises" THEN Raised
    ELSE IF ~Truthy(candidate.content) THEN FellThrough
    ELSE IF candidate.content.k # "obj" \/ candidate.content.parts.k = "missing"
         THEN FellThrough
    ELSE IF candidate.content.parts.k = "raises" THEN Raised
    ELSE extract_from_parts(candidate.content.parts)

\* the try block taking candidates[-1] in place of candidates[0]
extract_try_last(response) ==
    LET candidates == response.candidates IN
    IF candidates.k = "raises" THEN Raised
    ELSE IF candidates.k = "missing" \/ ~Truthy(candidates) THEN PyNone
    ELSE IF candidates.k # "list" THEN Raised
    ELSE extract_from_candidate(candidates.items[Len(candidates.items)])

\* the try block, lines 76-85
extract_try(response) ==
    LET candidates == response.candidates IN
    IF candidates.k = "raises" THEN Raised
    ELSE IF candidates.k = "missing" \/ ~Truthy(candidates) THEN PyNone
    ELSE IF candidates.k # "list" THEN Raised
    ELSE extract_from_candidate(candidates.items[1])

\* lines 70-91: an exception of the block and the fall-through both give None
extract_first_text(response) ==
    LET r == extract_try(response) IN
    IF r \in {Raised, FellThrough} THEN PyNone ELSE r

(* ---------------- exceptions and results ---------------- *)
\* an exception: its class, str(e), and the class and str of its __cause__
NoExc == [type |-> "", msg |-> <<>>, cause_type |-> "", cause_msg |-> <<>>]
Exc(type, msg) == [type |-> type, msg |-> msg, cause_type |-> "", cause_msg |-> <<>>]
\* raise RuntimeError(...) from e
ExcFrom(type, msg, e) ==
    [type |-> type, msg |-> msg, cause_type |-> e.type, cause_msg |-> e.msg]

\* what generate_text did: nothing yet, returned val, or raised exc
Pending == [tag |-> "pending", val |-> PyNone, exc |-> NoExc]
Returned(v) == [tag |-> "return", val |-> v, exc |-> NoExc]
Raise(e) == [tag |-> "raise", val |-> PyNone, exc |-> e]

ConfigMsg ==
    <<"API key is not configured.", " Please set GOOGLE_API_KEY in your config.">>
CommPrefix == <<"Error communicating with Gemini API: ">>
FailedPrefix == <<"Generation failed: ">>
NoContentMsg == FailedPrefix \o <<"no content returned by the API.">>

\* str(v) inside an f-string
Str(v) == IF v.k = "None" THEN <<"None">> ELSE v.s

\* what the remote call raises: errors of the HTTP client and of the service
RemoteErrors ==
    {Exc("ConnectError", <<"connection refused">>),
     Exc("ClientError", <<"401 UNAUTHENTICATED">>)}
\* reading an attribute of the response raised
AttrError == Exc("Exception", <<"attribute access failed">>)

(* ---------------- main.py: generate_text ---------------- *)
\* GOOGLE_API_KEY is None
key_is_none(key) == key.k = "None"

\* line 36: not GOOGLE_API_KEY
key_absent(key) == ~Truthy(key)

\* the RuntimeError without the cause in its message
wrap_error_bare(e) == ExcFrom("RuntimeError", CommPrefix, e)

\* line 64-67: every exception of the try block leaves as a RuntimeError
wrap_error(e) == ExcFrom("RuntimeError", CommPrefix \o e.msg, e)

\* lines 55-62, inside the try: return the text or raise ValueError
classify_try(text, response) ==
    IF text.k # "None" THEN Returned(text)
    ELSE IF response.prompt_feedback.k = "raises" THEN Raise(AttrError)
    ELSE IF response.prompt_feedback.k # "missing" /\ Truthy(response.prompt_feedback)
         THEN Raise(Exc("ValueError", FailedPrefix \o Str(response.prompt_feedback)))
    ELSE Raise(Exc("ValueError", NoContentMsg))

\* lines 55-67
classify(text, response) ==
    LET r == classify_try(text, response) IN
    IF r.tag = "raise" THEN Raise(wrap_error(r.exc)) ELSE r

(* ---------------- cli.py: main ---------------- *)
\* a float: a number (in tenths), nan, or an infinity (v its sign)
Num(v) == [k |-> "num", v |-> v]
NaN == [k |-> "nan", v |-> 0]
Inf(sign) == [k |-> "inf", v |-> sign]

\* a <= b on floats: false when either is nan
FLe(a, b) ==
    /\ a.k # "nan"
    /\ b.k # "nan"
    /\ IF a.k = "inf" THEN a.v < 0 \/ (b.k = "inf" /\ b.v > 0)
       ELSE IF b.k = "inf" THEN b.v > 0
       ELSE a.v <= b.v

\* a <  b on floats
FLt(a, b) == FLe(a, b) /\ a # b

\* the validation with the upper bound excluded
validate_open(temperature, max_output) ==
    IF ~(FLe(Num(0), temperature) /\ FLt(temperature, Num(20))) THEN "temperature"
    ELSE IF max_output <= 0 THEN "max_output"
    ELSE ""

\* lines 87-93: what the validation rejects, "" when it accepts
validate(temperature, max_output) ==
    IF ~(FLe(Num(0), temperature) /\ FLe(temperature, Num(20))) THEN "temperature"
    ELSE IF max_output <= 0 THEN "max_output"
    ELSE ""

RED == "ESC[91m"
YELLOW == "ESC[93m"
BOLD == "ESC[1m"
RESET == "ESC[0m"

ErrorLine(msg) == <<RED, BOLD, "Error: ">> \o msg \o <<RESET>>
TemperatureMsg == <<"Temperature must be between 0.0 and 2.0.">>
MaxOutputMsg == <<"Maximum output tokens must be positive.">>
Notice == <<YELLOW, "Generating response...", RESET, "\n">>

\* the lines print(s) adds to the output: s is cut at its newlines
RECURSIVE lines_of(_, _)
lines_of(s, cur) ==
    IF s = <<>> THEN <<cur>>
    ELSE IF Head(s) = "\n" THEN <<cur>> \o lines_of(Tail(s), <<>>)
    ELSE lines_of(Tail(s), Append(cur, Head(s)))

print(out, s) == out \o lines_of(s, <<>>)

RECURSIVE print_all(_, _)
print_all(out, lines) ==
    IF lines = <<>> THEN out ELSE print_all(print(out, Head(lines)), Tail(lines))

\* cli.py line 29: the width used when the terminal's cannot be read
DefaultWidth == 80
\* cli.py line 64: --temperature defaults to 0.7 (in tenths)
DefaultTemperature == 7
\* cli.py line 76: --max-output defaults to 2048
DefaultMaxOutput == 2048

\* the command lines: none, one argparse rejects, or a parsed one
EmptyArgv == [form |-> "empty", temperature |-> Num(DefaultTemperature),
              max_output |-> DefaultMaxOutput]
InvalidArgv == [form |-> "invalid", temperature |-> Num(DefaultTemperature),
                max_output |-> DefaultMaxOutput]
Temperatures ==
    {Num(t) : t \in {-1, 0, DefaultTemperature, 20, 21}} \cup {NaN, Inf(1), Inf(-1)}
MaxOutputs == {-1, 0, 1, DefaultMaxOutput}
ParsedArgvs == [form : {"ok"}, temperature : Temperatures, max_output : MaxOutputs]
Argvs == {EmptyArgv, InvalidArgv} \cup ParsedArgvs

\* config.py line 6: os.getenv gives None or the variable's value
ApiKeys == {PyNone, PyStr(<<>>), PyStr(<<"k">>)}

\* shutil.get_terminal_size().columns, or the default
Widths == (1..MaxWidth) \cup {DefaultWidth}

\* response before generate_content has returned
Unset == [k |-> "unset", s |-> <<>>, n |-> 0]
NoResponse == [candidates |-> NoItems(Unset), prompt_feedback |-> Unset]

\* a response as the client library types it: every level may be absent or
\* None, no field holds a value of another type and no access raises
WellTypedPart(p) == p.k = "obj" /\ p.text.k \in {"missing", "None", "str"}
WellTypedParts(ps) ==
    /\ ps.k \in {"missing", "None", "list"}
    /\ \A i \in 1..Len(ps.items) : WellTypedPart(ps.items[i])
WellTypedContent(c) ==
    /\ c.k \in {"missing", "None", "obj"}
    /\ c.k = "obj" => WellTypedParts(c.parts)
WellTypedCandidate(c) == c.k = "obj" /\ WellTypedContent(c.content)
WellTyped(r) ==
    /\ r.candidates.k \in {"missing", "None", "list"}
    /\ \A i \in 1..Len(r.candidates.items) : WellTypedCandidate(r.candidates.items[i])
    /\ r.prompt_feedback.k \in {"missing", "None", "obj"}
TypedResponses == {r \in Responses : WellTyped(r)}

VARIABLES
    pc,         \* where main is
    argv,       \* the command line
    apiKey,     \* config.GOOGLE_API_KEY
    clients,    \* Client objects constructed
    calls,      \* generate_content calls issued
    response,   \* what generate_content returned
    extracted,  \* text of generate_text: what _extract_first_text returned
    genResult,  \* how generate_text ended
    width,      \* the width safe_print used
    presented,  \* calls of safe_print
    stdout,     \* the lines printed
    log,        \* the records logged
    exitCode    \* -1 while the process runs

vars == <<pc, argv, apiKey, clients, calls, response, extracted, genResult,
          width, presented, stdout, log, exitCode>>

Running == -1

Exit(code) == pc' = "exit" /\ exitCode' = code

\* lines 80-84: no argument prints the help and exits 1; argparse exits 2
ParseArgs ==
    /\ pc = "parse"
    /\ IF argv.form = "empty" THEN Exit(1)
       ELSE IF argv.form = "invalid" THEN Exit(2)
       ELSE pc' = "validate" /\ UNCHANGED exitCode
    /\ UNCHANGED <<argv, apiKey, clients, calls, response, extracted, genResult,
                   width, presented, stdout, log>>

\* lines 86-96
Validate ==
    /\ pc = "validate"
    /\ LET bad == validate(argv.temperature, argv.max_output) IN
       IF bad = "temperature"
       THEN stdout' = print(stdout, ErrorLine(TemperatureMsg)) /\ Exit(1)
       ELSE IF bad = "max_output"
       THEN stdout' = print(stdout, ErrorLine(MaxOutputMsg)) /\ Exit(1)
       ELSE stdout' = print(stdout, Notice) /\ pc' = "generate" /\ UNCHANGED exitCode
    /\ UNCHANGED <<argv, apiKey, clients, calls, response, extracted, genResult,
                   width, presented, log>>

\* main.py lines 36-37
CheckKey ==
    /\ pc = "generate"
    /\ IF key_absent(apiKey)
       THEN genResult' = Raise(Exc("RuntimeError", ConfigMsg)) /\ pc' = "returned"
       ELSE pc' = "client" /\ UNCHANGED genResult
    /\ UNCHANGED <<argv, apiKey, clients, calls, response, extracted,
                   width, presented, stdout, log, exitCode>>

\* main.py lines 40-45
BuildClient ==
    /\ pc = "client"
    /\ clients' = clients + 1
    /\ pc' = "call"
    /\ UNCHANGED <<argv, apiKey, calls, response, extracted, genResult,
                   width, presented, stdout, log, exitCode>>

\* main.py line 47: the request leaves
IssueCall ==
    /\ pc = "call"
    /\ calls' = calls + 1
    /\ pc' = "await"
    /\ UNCHANGED <<argv, apiKey, clients, response, extracted, genResult,
                   width, presented, stdout, log, exitCode>>

\* main.py lines 47-51: the call returns a response
ServiceReturns ==
    /\ pc = "await"
    /\ \E r \in TypedResponses : response' = r
    /\ pc' = "extract"
    /\ UNCHANGED <<argv, apiKey, clients, calls, extracted, genResult,
                   width, presented, stdout, log, exitCode>>

\* the call raises and is issued once more
ServiceRaisesRetry ==
    /\ pc = "await"
    /\ IF calls < 2
       THEN pc' = "call" /\ UNCHANGED <<genResult, log>>
       ELSE /\ \E e \in RemoteErrors : genResult' = Raise(wrap_error(e))
            /\ log' = Append(log, "ERROR")
            /\ pc' = "returned"
    /\ UNCHANGED <<argv, apiKey, clients, calls, response, extracted,
                   width, presented, stdout, exitCode>>

\* main.py lines 47-51 and 64-67: the call raises
ServiceRaises ==
    /\ pc = "await"
    /\ \E e \in RemoteErrors : genResult' = Raise(wrap_error(e))
    /\ log' = Append(log, "ERROR")
    /\ pc' = "returned"
    /\ UNCHANGED <<argv, apiKey, clients, calls, response, extracted,
                   width, presented, stdout, exitCode>>

\* main.py line 54
Extract ==
    /\ pc = "extract"
    /\ extracted' = extract_first_text(response)
    /\ log' = IF extract_try(response) = Raised THEN Append(log, "DEBUG") ELSE log
    /\ pc' = "classify"
    /\ UNCHANGED <<argv, apiKey, clients, calls, response, genResult,
                   width, presented, stdout, exitCode>>

\* main.py lines 55-67
Classify ==
    /\ pc = "classify"
    /\ genResult' = classify(extracted, response)
    /\ log' = IF genResult'.tag = "raise" THEN Append(log, "ERROR") ELSE log
    /\ pc' = "returned"
    /\ UNCHANGED <<argv, apiKey, clients, calls, response, extracted,
                   width, presented, stdout, exitCode>>

\* cli.py lines 105-108
HandleError ==
    /\ pc = "returned"
    /\ genResult.tag = "raise"
    /\ log' = Append(log, "ERROR")
    /\ stdout' = print(stdout, ErrorLine(genResult.exc.msg))
    /\ Exit(1)
    /\ UNCHANGED <<argv, apiKey, clients, calls, response, extracted, genResult,
                   width, presented>>

\* cli.py line 111 and lines 20-49; s.split() of a value that is no str
\* raises, and the interpreter ends with exit code 1
Present ==
    /\ pc = "returned"
    /\ genResult.tag = "return"
    /\ presented' = presented + 1
    /\ \E w \in Widths :
        /\ width' = w
        /\ IF genResult.val.k = "str"
           THEN stdout' = print_all(stdout, safe_print(genResult.val.s, w)) /\ Exit(0)
           ELSE UNCHANGED stdout /\ Exit(1)
    /\ UNCHANGED <<argv, apiKey, clients, calls, response, extracted, genResult, log>>

Idle ==
    /\ clients = 0
    /\ calls = 0
    /\ response = NoResponse
    /\ extracted = PyNone
    /\ genResult = Pending
    /\ width = 0
    /\ presented = 0
    /\ stdout = <<>>
    /\ log = <<>>
    /\ exitCode = Running

\* a run of the command
Init ==
    /\ pc = "parse"
    /\ argv \in Argvs
    /\ apiKey \in ApiKeys
    /\ Idle

Next ==
    \/ ParseArgs
    \/ Validate
    \/ CheckKey
    \/ BuildClient
    \/ IssueCall
    \/ ServiceReturns
    \/ ServiceRaises
    \/ Extract
    \/ Classify
    \/ HandleError
    \/ Present

Spec == Init /\ [][Next]_vars

DefaultArgv == [form |-> "ok", temperature |-> Num(DefaultTemperature),
                max_output |-> DefaultMaxOutput]

\* _extract_first_text and what follows it, on every response shape: the run
\* stands where generate_content has just returned
InitExtract ==
    /\ pc = "extract"
    /\ argv = DefaultArgv
    /\ apiKey = PyStr(<<"k">>)
    /\ clients = 1
    /\ calls = 1
    /\ response \in Responses
    /\ extracted = PyNone
    /\ genResult = Pending
    /\ width = 0
    /\ presented = 0
    /\ stdout = print(<<>>, Notice)
    /\ log = <<>>
    /\ exitCode = Running

NextExtract ==
    \/ Extract
    \/ Classify
    \/ HandleError
    \/ Present

SpecExtract == InitExtract /\ [][NextExtract]_vars

TextResponse(t) ==
    [candidates |-> CandidatesList(<<CandidateObj(ContentObj(PartsList(<<PartObj(PyStr(t))>>)))>>),
     prompt_feedback |-> PyNone]

\* safe_print on every text: the run stands where generate_text has just
\* returned the text
InitPresent ==
    /\ pc = "returned"
    /\ argv = DefaultArgv
    /\ apiKey = PyStr(<<"k">>)
    /\ clients = 1
    /\ calls = 1
    /\ \E t \in SeqsUpTo(Chars, MaxLen) :
        /\ response = TextResponse(t)
        /\ extracted = PyStr(t)
        /\ genResult = Returned(PyStr(t))
    /\ width = 0
    /\ presented = 0
    /\ stdout = print(<<>>, Notice)
    /\ log = <<>>
    /\ exitCode = Running

NextPresent == Present

SpecPresent == InitPresent /\ [][NextPresent]_vars

(* ---------------- properties ---------------- *)
Contains(hay, needle) ==
    \E i \in 0..(Len(hay) - Len(needle)) : SubSeq(hay, i + 1, i + Len(needle)) = needle

StartsWith(s, prefix) ==
    Len(prefix) <= Len(s) /\ SubSeq(s, 1, Len(prefix)) = prefix

\* generate_text has ended
GenerateEnded == pc \in {"returned", "exit"} /\ genResult # Pending

\* generate_content returned and _extract_first_text has run on its response
ExtractRan == pc \in {"classify", "returned", "exit"} /\ response # NoResponse

\* the failure a caller of generate_text sees when the remote call raises: a
\* RuntimeError whose message starts "Error communicating with Gemini API: "
LooksLikeTransportError(e) == e.type = "RuntimeError" /\ StartsWith(e.msg, CommPrefix)

HasFeedback(r) == r.prompt_feedback.k \notin {"missing", "None"} /\ Truthy(r.prompt_feedback)

\* C1: when the call returned and nothing was extracted, generate_text fails
\* with the feedback as its detail if the response carries feedback and with
\* the no-content explanation if not, and in both cases with a failure of
\* another kind than the one a raising remote call gives.
C1_NothingIsClassifiedApart ==
    (GenerateEnded /\ ExtractRan /\ extracted = PyNone) =>
        /\ genResult.tag = "raise"
        /\ HasFeedback(response) =>
               Contains(genResult.exc.msg, Str(response.prompt_feedback))
        /\ ~HasFeedback(response) => Contains(genResult.exc.msg, NoContentMsg)
        /\ ~LooksLikeTransportError(genResult.exc)

CredentialAbsent == apiKey = PyNone \/ apiKey = PyStr(<<>>)

\* the command line parsed and its values within the documented ranges
InRange(t) == t.k = "num" /\ 0 <= t.v /\ t.v <= 20
Accepted == argv.form = "ok" /\ InRange(argv.temperature) /\ argv.max_output > 0

\* C2: without a credential (unset or empty) no client is constructed, no
\* call is issued, and generate_text fails with the RuntimeError saying the
\* API key is not configured, not wrapped as a communication error.
C2_NoCredentialNoCall ==
    CredentialAbsent =>
        /\ clients = 0
        /\ calls = 0
        /\ response = NoResponse
        /\ (pc = "returned" \/ (pc = "exit" /\ Accepted)) =>
            /\ genResult.tag = "raise"
            /\ genResult.exc.type = "RuntimeError"
            /\ Contains(genResult.exc.msg, <<"API key is not configured.">>)
            /\ ~LooksLikeTransportError(genResult.exc)
            /\ genResult.exc.cause_type = ""

C2_Witness ==
    /\ apiKey = PyStr(<<>>)
    /\ pc = "exit"
    /\ genResult.tag = "raise"
    /\ argv.temperature = Num(20)

\* C3: a run issues no call when the validation rejects, none before the
\* validation has passed, exactly one once the validation has passed, the
\* credential is present and the call was reached, and never more than one.
C3_AtMostOneCall ==
    /\ calls \in {0, 1}
    /\ pc \in {"parse", "validate"} => calls = 0 /\ clients = 0
    /\ (argv.form # "ok" \/ validate(argv.temperature, argv.max_output) # "") =>
           calls = 0 /\ clients = 0
    /\ (pc \in {"await", "extract", "classify", "returned", "exit"}
            /\ argv.form = "ok"
            /\ validate(argv.temperature, argv.max_output) = ""
            /\ ~CredentialAbsent) => calls = 1

C3_Witness ==
    /\ pc = "exit"
    /\ calls = 1
    /\ genResult.tag = "raise"
    /\ genResult.exc.cause_type = "ConnectError"

\* C4: the validation lets a command line through iff 0.0 <= temperature <=
\* 2.0 and max_output > 0; a temperature out of range is reported first, and
\* every rejection prints its error line and exits with code 1.
C4_ValidationIff ==
    (argv.form = "ok" /\ pc \notin {"parse", "validate"}) =>
        /\ Accepted <=> (stdout # <<>> /\ stdout[1] = Head(lines_of(Notice, <<>>)))
        /\ ~InRange(argv.temperature) =>
            /\ pc = "exit"
            /\ exitCode = 1
            /\ stdout = <<ErrorLine(TemperatureMsg)>>
        /\ (InRange(argv.temperature) /\ argv.max_output <= 0) =>
            /\ pc = "exit"
            /\ exitCode = 1
            /\ stdout = <<ErrorLine(MaxOutputMsg)>>

C4_Witness ==
    /\ argv.temperature = Num(21)
    /\ argv.max_output = 0
    /\ pc = "exit"
    /\ exitCode = 1

\* the lines printed after the notice
PrintedAfterNotice == SubSeq(stdout, Len(lines_of(Notice, <<>>)) + 1, Len(stdout))

\* str of the exception the failure started from
CauseText(e) == IF e.cause_type = "" THEN e.msg ELSE e.cause_msg

\* C5: a failure of generate_text never reaches safe_print: it is printed as
\* one highlighted error line holding the text of its cause and the process
\* exits with code 1; safe_print runs, and the process exits with code 0,
\* only when generate_text returned a text.
C5_FailuresAreHandled ==
    /\ genResult.tag = "raise" => presented = 0
    /\ (genResult.tag = "raise" /\ pc = "exit") =>
        /\ exitCode = 1
        /\ Len(PrintedAfterNotice) = 1
        /\ StartsWith(PrintedAfterNotice[1], <<RED, BOLD, "Error: ">>)
        /\ PrintedAfterNotice[1][Len(PrintedAfterNotice[1])] = RESET
        /\ Contains(PrintedAfterNotice[1], CauseText(genResult.exc))
    /\ presented \in {0, 1}
    /\ presented = 1 => genResult.tag = "return" /\ genResult.val.k = "str"
    /\ (pc = "exit" /\ exitCode = 0) =>
           presented = 1 /\ genResult.tag = "return" /\ genResult.val.k = "str"

C5_Witness ==
    /\ pc = "exit"
    /\ exitCode = 1
    /\ genResult.tag = "raise"
    /\ genResult.exc.cause_type = "ValueError"
    /\ HasFeedback(response)

\* candidates[0].content.parts[0] can be followed down to a part object
FirstCandidate(r) == r.candidates.items[1]
ChainIntact(r) ==
    /\ r.candidates.k = "list" /\ r.candidates.items # <<>>
    /\ FirstCandidate(r).k = "obj"
    /\ FirstCandidate(r).content.k = "obj"
    /\ FirstCandidate(r).content.parts.k = "list"
    /\ FirstCandidate(r).content.parts.items # <<>>
    /\ FirstCandidate(r).content.parts.items[1].k = "obj"
FirstText(r) == FirstCandidate(r).content.parts.items[1].text

\* the chain breaks at one of the links the specification lists
ChainBroken(r) ==
    \/ r.candidates.k = "None"
    \/ r.candidates.k = "list" /\ r.candidates.items = <<>>
    \/ /\ r.candidates.k = "list" /\ r.candidates.items # <<>>
       /\ FirstCandidate(r).k = "obj"
       /\ \/ FirstCandidate(r).content.k = "None"
          \/ /\ FirstCandidate(r).content.k = "obj"
             /\ \/ FirstCandidate(r).content.parts.k = "None"
                \/ /\ FirstCandidate(r).content.parts.k = "list"
                   /\ FirstCandidate(r).content.parts.items = <<>>
    \/ ChainIntact(r) /\ FirstText(r).k = "missing"

\* r cut down to its first candidate and that candidate's first part
FirstOnlyParts(ps) ==
    IF ps.k = "list" /\ ps.items # <<>> THEN PartsList(<<ps.items[1]>>) ELSE ps
FirstOnlyCandidate(c) ==
    IF c.k = "obj" /\ c.content.k = "obj"
    THEN CandidateObj(ContentObj(FirstOnlyParts(c.content.parts)))
    ELSE c
FirstOnly(r) ==
    IF r.candidates.k = "list" /\ r.candidates.items # <<>>
    THEN [r EXCEPT !.candidates = CandidatesList(<<FirstOnlyCandidate(FirstCandidate(r))>>)]
    ELSE r

HasLaterText(r) ==
    /\ r.candidates.k = "list"
    /\ Len(r.candidates.items) > 1
    /\ r.candidates.items[2] \in TailCandidates \ {NoneCandidate}

\* C6: _extract_first_text gives None whenever the chain breaks (candidates
\* None or empty, content None, parts None or empty, first part without a
\* text attribute), and its result is the one it gives on the response cut
\* down to candidates[0] and its parts[0]: later candidates and parts do not
\* count.
C6_BrokenChainGivesNone ==
    ExtractRan =>
        /\ ChainBroken(response) => extracted = PyNone
        /\ extracted = extract_first_text(FirstOnly(response))

C6_Witness ==
    /\ ExtractRan
    /\ HasLaterText(response)
    /\ FirstCandidate(response).k = "obj"
    /\ FirstCandidate(response).content.k = "None"
    /\ extracted = PyNone

PresentedText == genResult.val.s
IsLongWord(w) == Len(w) > width
Presenting == pc = "exit" /\ presented = 1 /\ genResult.val.k = "str"

\* line is word followed by at least one space and nothing else
IsPadded(line, word) ==
    /\ Len(line) > Len(word)
    /\ SubSeq(line, 1, Len(word)) = word
    /\ \A i \in (Len(word) + 1)..Len(line) : line[i] = " "

\* C8: a word longer than the width is printed on a line of its own, whole
\* and padded on the right with spaces, not bare, the line at least as long
\* as the width.
C8_LongWordIsPadded ==
    Presenting =>
        \A i \in 1..Len(py_split(PresentedText)) :
            IsLongWord(py_split(PresentedText)[i]) =>
                \E j \in 1..Len(PrintedAfterNotice) :
                    /\ IsPadded(PrintedAfterNotice[j], py_split(PresentedText)[i])
                    /\ Len(PrintedAfterNotice[j]) >= width

RECURSIVE WordsOfLines(_)
WordsOfLines(lines) ==
    IF lines = <<>> THEN <<>> ELSE py_split(Head(lines)) \o WordsOfLines(Tail(lines))

\* C9: the words of the printed lines, read in order, are the words of the
\* text in order, none split (at a hyphen or elsewhere), dropped, repeated or
\* moved, and a line of two or more words is no wider than the width.
C9_WholeWordsInOrder ==
    Presenting =>
        /\ WordsOfLines(PrintedAfterNotice) = py_split(PresentedText)
        /\ \A j \in 1..Len(PrintedAfterNotice) :
               Len(py_split(PrintedAfterNotice[j])) >= 2 =>
                   Len(PrintedAfterNotice[j]) <= width

C9_Witness ==
    /\ Presenting
    /\ Len(PrintedAfterNotice) = 2
    /\ Len(py_split(PrintedAfterNotice[1])) = 2
    /\ Contains(PresentedText, <<"-">>)

\* C10: _extract_first_text raises for no response shape, and what it gives
\* is None or a string.
C10_NoneOrString ==
    ExtractRan => extracted.k \in {"None", "str"}
====
